---- MODULE Spec2Model ----
(***************************************************************************)
(* Model of the 5-React-Normalization-Rules helpers:                       *)
(*   src/src/utils/normalize.ts         normalize, denormalize,            *)
(*                                      extractEntities                    *)
(*   src/src/hooks/useNormalizedState.ts the stateful wrapper              *)
(*                                                                         *)
(* JavaScript values are tagged records, so that a number and the string   *)
(* that spells it are different values which ToPropertyKey maps to the     *)
(* same property key.  A plain object used as a map is a pair of its own   *)
(* property keys in enumeration order and the function from key to value.  *)
(***************************************************************************)
EXTENDS Integers, Sequences, FiniteSets, TLC

VARIABLES
    \* useNormalizedState (useNormalizedState.ts)
    state,            \* the state of the last render, which the reads see
    queue,            \* the updates handed to setState and not yet processed
    base,             \* the state the last render started from (the rendered
                      \* state while updates are pending)
    applied,          \* the updates the last render processed, in order (none
                      \* while updates are pending)
    \* extractEntities (normalize.ts)
    xpc,              \* position of the extractEntities run
    items,            \* extractEntities' argument items
    entityKey,        \* extractEntities' argument entityKey
    idKey,            \* extractEntities' argument idKey
    xi,               \* number of elements forEach has visited
    entities,         \* the local entities
    normalizedItems,  \* the local normalizedItems
    prevEntities,     \* entities before the last forEach callback
    \* normalize / denormalize (normalize.ts)
    npc,        \* position of the normalize / denormalize run
    arr,        \* normalize's argument arr
    key,        \* normalize's argument key
    idx,        \* number of elements the reduce has consumed
    acc,        \* the reduce accumulator / the map handed to denormalize
    prevAcc,    \* the accumulator the last reduce callback received
    warned,     \* the items console.warn was called with, in order
    out,        \* the array denormalize returned
    \* BlogApp (README, "Real-World Example"): the authors wrapper is the
    \* wrapper above, the posts wrapper is a second instance
    bpc,              \* position of BlogApp's effect
    posts,            \* the state of the posts wrapper at the last render
    postsQueue,       \* the updates handed to the posts wrapper's setState
    \* the zustand stores (postsStore.ts, authStore.ts, the UI store)
    storePosts,       \* posts of the posts store
    user,             \* user of the auth store
    isAuthenticated,  \* isAuthenticated of the auth store
    theme,            \* theme of the UI store
    sidebarOpen,      \* sidebarOpen of the UI store
    trace             \* the last calls made on the auth and UI stores, each
                      \* with the state it was made in

nvars == <<npc, arr, key, idx, acc, prevAcc, warned, out>>
xvars == <<xpc, items, entityKey, idKey, xi, entities, normalizedItems, prevEntities>>
hvars == <<state, queue, base, applied>>
bvars == <<bpc, posts, postsQueue>>
svars == <<storePosts, user, isAuthenticated, theme, sidebarOpen, trace>>
vars == <<nvars, xvars, hvars, bvars, svars>>

----------------------------------------------------------------------------
(* Bounds of the model *)

\* longest collection handed to normalize
MaxLen == 3
\* most insertions used to build a map handed directly to denormalize
MaxMapInserts == 2
\* longest collection handed to extractEntities
MaxItems == 2
\* most updates queued between two renders of the hook
MaxQueue == 2
\* number of store calls remembered in trace
MaxTrace == 2

----------------------------------------------------------------------------
(* JavaScript values *)

Undefined == [t |-> "undefined"]
Null == [t |-> "null"]
Num(n) == [t |-> "number", n |-> n]
Str(s) == [t |-> "string", s |-> s]
Obj(f) == [t |-> "object", f |-> f]
\* the empty array []
EmptyArr == [t |-> "array"]
\* a function inherited from Object.prototype
Fn == [t |-> "function"]

\* a record without fields: {}
NoFields == <<>>

\* item[key]: the value of a field, undefined when the record has no such field
Get(item, k) == IF k \in DOMAIN item THEN item[k] ELSE Undefined

\* names every plain object and array inherits from Object.prototype
ObjectProtoKeys == {"constructor", "toString", "valueOf", "hasOwnProperty"}

\* the own properties of a value
FieldsOf(v) ==
    CASE v.t = "object" -> v.f
      [] v.t = "array" -> [length |-> Num(0)]
      [] OTHER -> NoFields

\* k in v, for an object or array v: own and inherited properties
InValue(k, v) == k \in DOMAIN FieldsOf(v) \/ k \in ObjectProtoKeys

\* v[k], for an object or array v
GetValue(v, k) ==
    IF k \in DOMAIN FieldsOf(v) THEN FieldsOf(v)[k]
    ELSE IF k \in ObjectProtoKeys THEN Fn ELSE Undefined

\* ToBoolean
Truthy(v) == v.t \notin {"undefined", "null"} /\ v # Str("") /\ v # Num(0)

\* typeof v === 'object'
TypeofObject(v) == v.t \in {"object", "array", "null"}

\* mutant: a number and the string that spells it kept apart
PropertyKey_Typed(v) ==
    CASE v.t = "number" -> "#" \o ToString(v.n)
      [] v.t = "string" -> v.s
      [] v.t = "undefined" -> "undefined"
      [] v.t = "null" -> "null"
      [] v.t = "array" -> ""
      [] OTHER -> "[object Object]"

\* ToPropertyKey of a value used as a computed property name
PropertyKey(v) ==
    CASE v.t = "number" -> ToString(v.n)
      [] v.t = "string" -> v.s
      [] v.t = "undefined" -> "undefined"
      [] v.t = "null" -> "null"
      [] v.t = "array" -> ""
      [] OTHER -> "[object Object]"

----------------------------------------------------------------------------
(* Plain objects used as maps: own keys in enumeration order *)

\* the integers whose spelling the model uses as a property key
Numbers == {1, 2, 10}

\* a canonical array index: such keys are enumerated first, ascending
IsIndex(k) == \E n \in Numbers : ToString(n) = k
IndexOf(k) == CHOOSE n \in Numbers : ToString(n) = k

EmptyObj == [keys |-> <<>>, get |-> NoFields]

ObjHasOwn(o, k) == k \in DOMAIN o.get

\* where a new key goes in the enumeration order
InsertKey(keys, k) ==
    IF IsIndex(k)
    THEN LET before == {i \in 1..Len(keys) :
                           IsIndex(keys[i]) /\ IndexOf(keys[i]) < IndexOf(k)}
             p == Cardinality(before)
         IN SubSeq(keys, 1, p) \o <<k>> \o SubSeq(keys, p + 1, Len(keys))
    ELSE Append(keys, k)

\* o[k] = v on an object (or { ...o, [k]: v } on its copy)
ObjSet(o, k, v) ==
    IF ObjHasOwn(o, k)
    THEN [keys |-> o.keys, get |-> [o.get EXCEPT ![k] = v]]
    ELSE [keys |-> InsertKey(o.keys, k), get |-> (k :> v) @@ o.get]

\* delete o[k]
ObjDelete(o, k) ==
    [keys |-> SelectSeq(o.keys, LAMBDA x : x # k),
     get |-> [x \in DOMAIN o.get \ {k} |-> o.get[x]]]

\* o[k]: an own property, else what Object.prototype has under k
ObjGet(o, k) ==
    IF ObjHasOwn(o, k) THEN Obj(o.get[k])
    ELSE IF k \in ObjectProtoKeys THEN Fn ELSE Undefined

\* k in o: own and inherited properties
ObjIn(k, o) == ObjHasOwn(o, k) \/ k \in ObjectProtoKeys

\* Object.keys(o)
ObjKeys(o) == o.keys

\* Object.values(o)
ObjValues(o) == [i \in 1..Len(o.keys) |-> o.get[o.keys[i]]]

----------------------------------------------------------------------------
(* normalize.ts: normalize *)

\* whether normalize's callback treats the key value as missing (line 19)
IsMissing(keyValue) == keyValue = Undefined \/ keyValue = Null

\* mutants of the callback: the key field hard-wired to "id"; an entry already
\* present kept; null taken for an identifier
NormalizeStep_IdOnly(a, item, k) ==
    LET keyValue == Get(item, "id")
    IN IF IsMissing(keyValue) THEN a ELSE ObjSet(a, PropertyKey(keyValue), item)

NormalizeStep_FirstWins(a, item, k) ==
    LET keyValue == Get(item, k)
    IN IF IsMissing(keyValue) \/ ObjHasOwn(a, PropertyKey(keyValue)) THEN a
       ELSE ObjSet(a, PropertyKey(keyValue), item)

NormalizeStep_NullKept(a, item, k) ==
    LET keyValue == Get(item, k)
    IN IF keyValue = Undefined THEN a ELSE ObjSet(a, PropertyKey(keyValue), item)

\* the reduce callback of normalize (lines 17-24): the next accumulator
NormalizeStep(a, item, k) ==
    LET keyValue == Get(item, k)
    IN IF IsMissing(keyValue) THEN a ELSE ObjSet(a, PropertyKey(keyValue), item)

\* mutant: the diagnostic emitted for every item
NormalizeWarn_EveryItem(w, item, k) == Append(w, item)

\* the console.warn calls of the callback (line 20)
NormalizeWarn(w, item, k) ==
    IF IsMissing(Get(item, k)) THEN Append(w, item) ELSE w

RECURSIVE NormalizeFrom(_, _, _)
NormalizeFrom(a, s, k) ==
    IF s = <<>> THEN a ELSE NormalizeFrom(NormalizeStep(a, Head(s), k), Tail(s), k)

\* normalize(arr, key) as a function (lines 12-27)
normalize(s, k) == NormalizeFrom(EmptyObj, s, k)

\* mutant: the map read as an array, only its index keys listed
denormalize_IndexOnly(o) ==
    LET ks == SelectSeq(o.keys, IsIndex)
    IN [i \in 1..Len(ks) |-> o.get[ks[i]]]

\* denormalize(obj) (lines 39-41)
denormalize(o) == ObjValues(o)

----------------------------------------------------------------------------
(* The inputs of normalize *)

Absent == [t |-> "absent"]
IdChoices == {Absent, Undefined, Null, Num(1), Str("1"), Num(2)}
NameChoices == {Absent, Str("John"), Str("Jane")}

Field(name, v) == IF v = Absent THEN NoFields ELSE (name :> v)

Records == {Field("id", i) @@ Field("name", n) : i \in IdChoices, n \in NameChoices}

Collections == UNION {[1..n -> Records] : n \in 0..MaxLen}

KeyChoices == {"id", "name"}

\* maps built by hand, as a caller of denormalize may build them
RECURSIVE BuildObj(_)
BuildObj(ps) ==
    IF ps = <<>> THEN EmptyObj
    ELSE LET p == ps[Len(ps)]
         IN ObjSet(BuildObj(SubSeq(ps, 1, Len(ps) - 1)), p[1], p[2])

MapKeys == {"1", "2", "John"}
MapRecords == {r \in Records : "id" \in DOMAIN r /\ "name" \in DOMAIN r
                                /\ r.id \in {Num(1), Num(2)}}
EntityMaps == {BuildObj(ps) : ps \in UNION {[1..n -> MapKeys \X MapRecords] : n \in 0..MaxMapInserts}}

----------------------------------------------------------------------------
(* The state of a component that is not running *)

IdleNormalize ==
    /\ npc = "idle"
    /\ arr = <<>>
    /\ key = "id"
    /\ idx = 0
    /\ acc = EmptyObj
    /\ prevAcc = EmptyObj
    /\ warned = <<>>
    /\ out = <<>>

IdleExtract ==
    /\ xpc = "idle"
    /\ items = <<>>
    /\ entityKey = "author"
    /\ idKey = "id"
    /\ xi = 0
    /\ entities = EmptyObj
    /\ normalizedItems = EmptyObj
    /\ prevEntities = EmptyObj

\* useNormalizedState() before any call (line 18, initialState = {})
IdleHook ==
    /\ state = EmptyObj
    /\ queue = <<>>
    /\ base = EmptyObj
    /\ applied = <<>>

\* BlogApp not mounted
IdleBlog ==
    /\ bpc = "idle"
    /\ posts = EmptyObj
    /\ postsQueue = <<>>

\* the stores as create() leaves them (postsStore.ts:21, authStore.ts:12-13,
\* the UI store lines 12-13), no call made yet
IdleStores ==
    /\ storePosts = EmptyObj
    /\ user = Null
    /\ isAuthenticated = FALSE
    /\ theme = "light"
    /\ sidebarOpen = TRUE
    /\ trace = <<>>

----------------------------------------------------------------------------
(* The run of normalize followed by denormalize *)

InitNormalize ==
    /\ \/ /\ npc = "reduce"
          /\ arr \in Collections
          /\ key \in KeyChoices
          /\ acc = EmptyObj
       \/ /\ npc = "given"
          /\ arr = <<>>
          /\ key = "id"
          /\ acc \in EntityMaps
    /\ idx = 0
    /\ prevAcc = EmptyObj
    /\ warned = <<>>
    /\ out = <<>>
    /\ IdleExtract
    /\ IdleHook
    /\ IdleBlog
    /\ IdleStores

\* one call of the reduce callback (lines 17-24)
ReduceStep ==
    /\ npc = "reduce"
    /\ idx < Len(arr)
    /\ idx' = idx + 1
    /\ prevAcc' = acc
    /\ acc' = NormalizeStep(acc, arr[idx + 1], key)
    /\ warned' = NormalizeWarn(warned, arr[idx + 1], key)
    /\ UNCHANGED <<npc, arr, key, out>>
    /\ UNCHANGED <<xvars, hvars, bvars, svars>>

\* reduce returns the accumulator (line 16)
ReduceReturn ==
    /\ npc = "reduce"
    /\ idx = Len(arr)
    /\ npc' = "returned"
    /\ UNCHANGED <<arr, key, idx, acc, prevAcc, warned, out>>
    /\ UNCHANGED <<xvars, hvars, bvars, svars>>

\* denormalize(normalize(arr, key)) (line 40 on the map of line 16)
DenormalizeResult ==
    /\ npc = "returned"
    /\ npc' = "roundtrip"
    /\ out' = denormalize(acc)
    /\ UNCHANGED <<arr, key, idx, acc, prevAcc, warned>>
    /\ UNCHANGED <<xvars, hvars, bvars, svars>>

\* denormalize(obj) on a map the caller built (line 40)
DenormalizeGiven ==
    /\ npc = "given"
    /\ npc' = "listed"
    /\ out' = denormalize(acc)
    /\ UNCHANGED <<arr, key, idx, acc, prevAcc, warned>>
    /\ UNCHANGED <<xvars, hvars, bvars, svars>>

NextNormalize == ReduceStep \/ ReduceReturn \/ DenormalizeResult \/ DenormalizeGiven

SpecNormalize == InitNormalize /\ [][NextNormalize]_vars

----------------------------------------------------------------------------
(* normalize.ts: extractEntities *)

\* mutant: the test for the identifier field left out
ShouldExtract_NoInTest(entity, k) == Truthy(entity) /\ TypeofObject(entity)

\* the condition of line 71
ShouldExtract(entity, k) == Truthy(entity) /\ TypeofObject(entity) /\ InValue(k, entity)

\* a record without one field: delete itemCopy[f] (line 74)
Without(item, f) == [g \in DOMAIN item \ {f} |-> item[g]]

\* a record with one field set: itemCopy[f] = v (line 75)
With(item, f, v) == (f :> v) @@ item

\* the name of the reference field: `${String(entityKey)}Id` (line 75)
RefField(f) == f \o "Id"

\* mutant: the nested field left in the copy
ItemCopy_KeepNested(item, f, k) ==
    LET entity == Get(item, f)
    IN IF ShouldExtract(entity, k)
       THEN With(item, RefField(f), GetValue(entity, k))
       ELSE item

\* mutant: the reference field given the outer record's identifier
ItemCopy_RefIsOuterId(item, f, k) ==
    LET entity == Get(item, f)
    IN IF ShouldExtract(entity, k)
       THEN With(Without(item, f), RefField(f), Get(item, k))
       ELSE item

\* itemCopy as it is stored by line 78
ItemCopy(item, f, k) ==
    LET entity == Get(item, f)
    IN IF ShouldExtract(entity, k)
       THEN With(Without(item, f), RefField(f), GetValue(entity, k))
       ELSE item

\* mutant: an entity already extracted is kept
ExtractEntity_FirstWins(ents, item, f, k) ==
    LET entity == Get(item, f)
    IN IF ShouldExtract(entity, k) /\ ~ObjHasOwn(ents, PropertyKey(GetValue(entity, k)))
       THEN ObjSet(ents, PropertyKey(GetValue(entity, k)), FieldsOf(entity))
       ELSE ents

\* mutant: a record nested in the extracted record extracted as well
ExtractEntity_Descends(ents, item, f, k) ==
    LET entity == Get(item, f)
    IN IF ShouldExtract(entity, k)
       THEN LET own == ObjSet(ents, PropertyKey(GetValue(entity, k)), FieldsOf(entity))
                inner == {g \in DOMAIN FieldsOf(entity) :
                             ShouldExtract(FieldsOf(entity)[g], k)}
            IN IF inner = {} THEN own
               ELSE LET g == CHOOSE x \in inner : TRUE
                        n == FieldsOf(entity)[g]
                    IN ObjSet(own, PropertyKey(GetValue(n, k)), FieldsOf(n))
       ELSE ents

\* entities after the callback has run for item (lines 71-73)
ExtractEntity(ents, item, f, k) ==
    LET entity == Get(item, f)
    IN IF ShouldExtract(entity, k)
       THEN ObjSet(ents, PropertyKey(GetValue(entity, k)), FieldsOf(entity))
       ELSE ents

\* mutant: itemCopy is the argument's record itself, not a copy of it
ItemAfterCallback_NoCopy(item, f, k) == ItemCopy(item, f, k)

\* the argument's record after the callback has run for it: line 69 makes
\* itemCopy a new record, lines 74-75 write to itemCopy, and line 73 stores the
\* nested record without writing to it
ItemAfterCallback(item, f, k) == item

\* normalizedItems after the callback has run for item (line 78)
ExtractItem(nitems, item, f, k) ==
    ObjSet(nitems, PropertyKey(Get(item, k)), ItemCopy(item, f, k))

----------------------------------------------------------------------------
(* The inputs of extractEntities *)

AuthorChoices ==
    { Absent, Null, Str("John"), EmptyArr,
      Obj([name |-> Str("John")]),
      Obj([id |-> Num(10), name |-> Str("John")]),
      Obj([id |-> Num(10), name |-> Str("Jane")]),
      Obj([id |-> Str("10"), name |-> Str("John")]),
      Obj([id |-> Null, name |-> Str("John")]),
      Obj([id |-> Num(2), name |-> Str("Jane"), company |-> Obj([id |-> Num(1)])]) }

OuterIdChoices == {Absent, Num(1), Str("1"), Num(2)}

\* outer records that already carry a field named authorId: one without an
\* author, one with an author of another identifier
RefPosts ==
    { [id |-> Num(2), title |-> Str("P1"), authorId |-> Num(10)],
      [id |-> Num(1), title |-> Str("P1"), authorId |-> Num(2),
       author |-> Obj([id |-> Num(10), name |-> Str("John")])] }

Posts ==
    { Field("id", i) @@ [title |-> Str("P1")] @@ Field("author", a) :
        i \in OuterIdChoices, a \in AuthorChoices } \cup RefPosts

PostCollections == UNION {[1..n -> Posts] : n \in 0..MaxItems}

EntityKeyChoices == {"author", "title"}
IdKeyChoices == {"id", "name"}

----------------------------------------------------------------------------
(* The run of extractEntities *)

InitExtract ==
    /\ xpc = "forEach"
    /\ items \in PostCollections
    /\ entityKey \in EntityKeyChoices
    /\ idKey \in IdKeyChoices
    /\ xi = 0
    /\ entities = EmptyObj
    /\ normalizedItems = EmptyObj
    /\ prevEntities = EmptyObj
    /\ IdleNormalize
    /\ IdleHook
    /\ IdleBlog
    /\ IdleStores

\* one call of the forEach callback (lines 67-79)
ForEachStep ==
    /\ xpc = "forEach"
    /\ xi < Len(items)
    /\ xi' = xi + 1
    /\ prevEntities' = entities
    /\ entities' = ExtractEntity(entities, items[xi + 1], entityKey, idKey)
    /\ normalizedItems' = ExtractItem(normalizedItems, items[xi + 1], entityKey, idKey)
    /\ items' = [items EXCEPT ![xi + 1] = ItemAfterCallback(@, entityKey, idKey)]
    /\ UNCHANGED <<xpc, entityKey, idKey>>
    /\ UNCHANGED <<nvars, hvars, bvars, svars>>

\* return { items: normalizedItems, entities } (line 81)
ExtractReturn ==
    /\ xpc = "forEach"
    /\ xi = Len(items)
    /\ xpc' = "returned"
    /\ UNCHANGED <<items, entityKey, idKey, xi, entities, normalizedItems, prevEntities>>
    /\ UNCHANGED <<nvars, hvars, bvars, svars>>

NextExtract == ForEachStep \/ ExtractReturn

SpecExtract == InitExtract /\ [][NextExtract]_vars

----------------------------------------------------------------------------
(* normalize.ts: a call of any of the three functions *)

InitUtils == InitNormalize \/ InitExtract

NextUtils == NextNormalize \/ NextExtract

SpecUtils == InitUtils /\ [][NextUtils]_vars

\* reduce and forEach are synchronous loops: a call that can take a step takes it
SpecUtilsFair == SpecUtils /\ WF_vars(NextUtils)

----------------------------------------------------------------------------
(* useNormalizedState.ts: the updaters handed to setState *)

\* addEntity's updater (lines 21-24)
AddEntityUpdater(prev, entity) == ObjSet(prev, PropertyKey(Get(entity, "id")), entity)

\* mutant: only the first entity of the batch stored
AddEntitiesUpdater_FirstOnly(prev, es) ==
    IF es = <<>> THEN prev
    ELSE ObjSet(prev, PropertyKey(Get(Head(es), "id")), Head(es))

\* mutant: the batch stored from its last entity to its first
RECURSIVE AddEntitiesUpdater_Backwards(_, _)
AddEntitiesUpdater_Backwards(prev, es) ==
    IF es = <<>> THEN prev
    ELSE AddEntitiesUpdater_Backwards(
             ObjSet(prev, PropertyKey(Get(es[Len(es)], "id")), es[Len(es)]),
             SubSeq(es, 1, Len(es) - 1))

\* addEntities' updater (lines 28-34)
RECURSIVE AddEntitiesUpdater(_, _)
AddEntitiesUpdater(prev, es) ==
    IF es = <<>> THEN prev
    ELSE AddEntitiesUpdater(ObjSet(prev, PropertyKey(Get(Head(es), "id")), Head(es)),
                            Tail(es))

\* removeEntity's updater (lines 38-42)
\* mutant: the entry listed last dropped along with the one under id
RemoveEntityUpdater_DropsLast(prev, id) ==
    LET o == ObjDelete(prev, PropertyKey(id))
    IN IF o.keys = <<>> THEN o ELSE ObjDelete(o, o.keys[Len(o.keys)])

RemoveEntityUpdater(prev, id) == ObjDelete(prev, PropertyKey(id))

\* mutants of updateEntity's updater: the partial stored in place of the
\* record; the record's fields kept where the partial names them
UpdateEntityUpdater_Replace(prev, id, updates) ==
    LET entity == ObjGet(prev, PropertyKey(id))
    IN IF ~Truthy(entity) THEN prev
       ELSE ObjSet(prev, PropertyKey(id), updates)

UpdateEntityUpdater_EntityWins(prev, id, updates) ==
    LET entity == ObjGet(prev, PropertyKey(id))
    IN IF ~Truthy(entity) THEN prev
       ELSE ObjSet(prev, PropertyKey(id), FieldsOf(entity) @@ updates)

\* updateEntity's updater (lines 46-54)
UpdateEntityUpdater(prev, id, updates) ==
    LET entity == ObjGet(prev, PropertyKey(id))
    IN IF ~Truthy(entity) THEN prev
       ELSE ObjSet(prev, PropertyKey(id), updates @@ FieldsOf(entity))

\* an update as setState queues it
Update(op, id, entity, es, updates) ==
    [op |-> op, id |-> id, entity |-> entity, entities |-> es, updates |-> updates]

NoId == Undefined
NoEntity == NoFields

\* the state one queued update produces from the state before it
ApplyUpdate(u, prev) ==
    CASE u.op = "addEntity" -> AddEntityUpdater(prev, u.entity)
      [] u.op = "addEntities" -> AddEntitiesUpdater(prev, u.entities)
      [] u.op = "removeEntity" -> RemoveEntityUpdater(prev, u.id)
      [] u.op = "updateEntity" -> UpdateEntityUpdater(prev, u.id, u.updates)
      [] u.op = "clear" -> EmptyObj

\* mutant: every update computed from the state of the last render, the last
\* one kept
ProcessQueue_FromSnapshot(q, prev) ==
    IF q = <<>> THEN prev ELSE ApplyUpdate(q[Len(q)], prev)

\* the queue processed in order, each update on the result of the one before
RECURSIVE ProcessQueue(_, _)
ProcessQueue(q, prev) ==
    IF q = <<>> THEN prev ELSE ProcessQueue(Tail(q), ApplyUpdate(Head(q), prev))

\* mutant: getEntity reading the map the pending updates will produce
getEntity_SeesPending(id) == ObjGet(ProcessQueue(queue, state), PropertyKey(id))

\* the reads of the hook (lines 57-73, 91)
getEntity(id) == ObjGet(state, PropertyKey(id))
getAllEntities == ObjValues(state)
entityIds == ObjKeys(state)
hasEntity(id) == ObjIn(PropertyKey(id), state)
count == Len(entityIds)

----------------------------------------------------------------------------
(* The arguments of the hook's callbacks *)

User(i, n) == [id |-> i, name |-> Str(n)]

HookEntities ==
    {User(Num(1), "John"), User(Num(1), "Jane"), User(Str("1"), "John"), User(Num(2), "Jane")}

HookBatches ==
    { <<>>,
      <<User(Num(1), "John"), User(Num(2), "Jane")>>,
      <<User(Num(2), "Jane"), User(Num(1), "John"), User(Str("1"), "Jane")>>,
      <<[id |-> Num(1)]>> }

HookIds == {Num(1), Str("1"), Num(2), Str("constructor")}

HookUpdates ==
    { <<Num(1), [name |-> Str("Jane")]>>,
      <<Str("1"), [name |-> Str("Jane")]>>,
      <<Num(2), [name |-> Str("John")]>>,
      <<Num(1), [id |-> Num(2)]>>,
      <<Str("constructor"), [name |-> Str("Jane")]>> }

----------------------------------------------------------------------------
(* The hook: callbacks queue updates, a render processes the queue *)

InitHook ==
    /\ IdleHook
    /\ IdleNormalize
    /\ IdleExtract
    /\ IdleBlog
    /\ IdleStores

\* setState(update): the update is queued behind the pending ones; the reads
\* keep the rendered state until the next render
Enqueue(u) ==
    /\ Len(queue) < MaxQueue
    /\ queue' = Append(queue, u)
    /\ base' = state
    /\ applied' = <<>>

\* addEntity(entity) (lines 20-25)
AddEntity ==
    \E e \in HookEntities :
        /\ Enqueue(Update("addEntity", NoId, e, <<>>, NoFields))
        /\ UNCHANGED <<state, nvars, xvars, bvars, svars>>

\* addEntities(entities) (lines 27-35)
AddEntities ==
    \E es \in HookBatches :
        /\ Enqueue(Update("addEntities", NoId, NoEntity, es, NoFields))
        /\ UNCHANGED <<state, nvars, xvars, bvars, svars>>

\* removeEntity(id) (lines 37-43)
RemoveEntity ==
    \E id \in HookIds :
        /\ Enqueue(Update("removeEntity", id, NoEntity, <<>>, NoFields))
        /\ UNCHANGED <<state, nvars, xvars, bvars, svars>>

\* updateEntity(id, updates) (lines 45-55)
UpdateEntity ==
    \E a \in HookUpdates :
        /\ Enqueue(Update("updateEntity", a[1], NoEntity, <<>>, a[2]))
        /\ UNCHANGED <<state, nvars, xvars, bvars, svars>>

\* clear() (lines 75-77)
Clear ==
    /\ Enqueue(Update("clear", NoId, NoEntity, <<>>, NoFields))
    /\ UNCHANGED <<state, nvars, xvars, bvars, svars>>

\* the next render: useState processes the queued updates (line 18)
Render ==
    /\ queue # <<>>
    /\ state' = ProcessQueue(queue, state)
    /\ base' = state
    /\ applied' = queue
    /\ queue' = <<>>
    /\ UNCHANGED <<nvars, xvars, bvars, svars>>

NextHook == AddEntity \/ AddEntities \/ RemoveEntity \/ UpdateEntity \/ Clear \/ Render

SpecHook == InitHook /\ [][NextHook]_vars

\* React renders again after setState: queued updates do not stay queued
SpecHookFair == SpecHook /\ WF_vars(Render)

----------------------------------------------------------------------------
(* The library as a whole: a behaviour exercises one of normalize,          *)
(* denormalize, extractEntities and the stateful wrapper, on records whose   *)
(* identifiers are integers or strings and with the default identifier field *)

TypedRecords ==
    {r \in Records : Get(r, "id") \in {Num(1), Str("1"), Num(2)} /\ "name" \in DOMAIN r}

TypedCollections == UNION {[1..n -> TypedRecords] : n \in 0..MaxLen}

TypedPosts ==
    {p \in Posts : /\ Get(p, "id") \in {Num(1), Str("1")}
                   /\ Get(p, "author").t = "object"
                   /\ Get(Get(p, "author").f, "id") \in {Num(10), Str("10")}}

TypedPostCollections == UNION {[1..n -> TypedPosts] : n \in 0..MaxItems}

InitLibrary ==
    \/ /\ arr \in TypedCollections
       /\ key = "id"
       /\ InitNormalize
    \/ /\ npc = "given"
       /\ InitNormalize
    \/ /\ items \in TypedPostCollections
       /\ entityKey = "author"
       /\ idKey = "id"
       /\ InitExtract
    \/ InitHook

NextLibrary ==
    \/ NextNormalize
    \/ NextExtract
    \/ (npc = "idle" /\ xpc = "idle" /\ NextHook)

SpecLibrary == InitLibrary /\ [][NextLibrary]_vars

----------------------------------------------------------------------------
(* BlogApp (README, "Real-World Example: Blog with Comments"): the fetched   *)
(* data goes through extractEntities(data, 'author'), the two maps are       *)
(* loaded into the posts and the authors wrapper, and updateAuthorName       *)
(* updates the authors wrapper.  The authors wrapper is the wrapper of the   *)
(* variables state, queue, base and applied.                                 *)

\* the fetched data: posts with a numeric id
BlogAuthors ==
    { Absent,
      Obj([id |-> Num(10), name |-> Str("John")]),
      Obj([id |-> Str("10"), name |-> Str("John")]),
      Obj([id |-> Num(2), name |-> Str("Jane"), company |-> Obj([id |-> Num(1)])]) }

BlogPosts ==
    {p \in Posts : /\ Get(p, "id") \in {Num(1), Num(2)}
                   /\ \/ "author" \notin DOMAIN p /\ Absent \in BlogAuthors
                      \/ "author" \in DOMAIN p /\ p.author \in BlogAuthors}

BlogData == UNION {[1..n -> BlogPosts] : n \in 0..MaxItems}

\* the arguments of updateAuthorName
BlogAuthorIds == {Num(10), Str("10")}
BlogNames == {Str("Ann"), Str("Jane")}

\* the response has arrived: extractEntities(data, 'author') starts
InitBlog ==
    /\ bpc = "fetched"
    /\ posts = EmptyObj
    /\ postsQueue = <<>>
    /\ xpc = "forEach"
    /\ items \in BlogData
    /\ entityKey = "author"
    /\ idKey = "id"
    /\ xi = 0
    /\ entities = EmptyObj
    /\ normalizedItems = EmptyObj
    /\ prevEntities = EmptyObj
    /\ IdleNormalize
    /\ IdleHook
    /\ IdleStores

\* posts.addEntities(Object.values(normalizedPosts));
\* authors.addEntities(Object.values(normalizedAuthors))
BlogLoad ==
    /\ bpc = "fetched"
    /\ xpc = "returned"
    /\ bpc' = "loaded"
    /\ postsQueue' = Append(postsQueue,
                            Update("addEntities", NoId, NoEntity,
                                   ObjValues(normalizedItems), NoFields))
    /\ queue' = Append(queue,
                       Update("addEntities", NoId, NoEntity, ObjValues(entities), NoFields))
    /\ base' = state
    /\ applied' = <<>>
    /\ UNCHANGED <<state, posts, nvars, xvars, svars>>

\* updateAuthorName(authorId, newName): authors.updateEntity(authorId, {name})
UpdateAuthorName ==
    \E a \in BlogAuthorIds, n \in BlogNames :
        /\ bpc = "loaded"
        /\ Enqueue(Update("updateEntity", a, NoEntity, <<>>, [name |-> n]))
        /\ UNCHANGED <<state, nvars, xvars, bvars, svars>>

\* the next render of BlogApp: each wrapper's useState processes its queue
BlogRender ==
    /\ queue # <<>> \/ postsQueue # <<>>
    /\ state' = ProcessQueue(queue, state)
    /\ base' = state
    /\ applied' = queue
    /\ queue' = <<>>
    /\ posts' = ProcessQueue(postsQueue, posts)
    /\ postsQueue' = <<>>
    /\ UNCHANGED <<bpc, nvars, xvars, svars>>

NextBlog == ForEachStep \/ ExtractReturn \/ BlogLoad \/ UpdateAuthorName \/ BlogRender

SpecBlog == InitBlog /\ [][NextBlog]_vars

----------------------------------------------------------------------------
(* postsStore.ts: the posts store. zustand's set applies the new state at
   once, get() returns it *)

\* mutant: updatePost filing the updates under an id the store does not hold
UpdatePostSet_Creates(ps, id, updates) ==
    LET post == ObjGet(ps, PropertyKey(id))
    IN ObjSet(ps, PropertyKey(id),
              IF Truthy(post) THEN updates @@ FieldsOf(post) ELSE updates)

\* addPost's new posts (lines 23-26)
AddPostSet(ps, post) == ObjSet(ps, PropertyKey(Get(post, "id")), post)

\* updatePost's new posts (lines 28-39)
UpdatePostSet(ps, id, updates) ==
    LET post == ObjGet(ps, PropertyKey(id))
    IN IF ~Truthy(post) THEN ps
       ELSE ObjSet(ps, PropertyKey(id), updates @@ FieldsOf(post))

\* removePost's new posts (lines 41-46)
RemovePostSet(ps, id) == ObjDelete(ps, PropertyKey(id))

\* getPost and getAllPosts (lines 48-50)
getPost(id) == ObjGet(storePosts, PropertyKey(id))
getAllPosts == ObjValues(storePosts)

\* arguments of the calls: posts and ids as the Post interface types them
\* (lines 3-9), an id that no post has among them
Post(i, t) == [id |-> Num(i), title |-> Str(t), content |-> Str("text")]
StorePostArgs == {Post(1, "A"), Post(1, "B"), Post(2, "A")}
StorePostIds == {Num(1), Num(2), Num(3)}
StorePostUpdates == {[title |-> Str("C")], [authorId |-> Num(10)]}

\* The store and a wrapper mounted beside it, both empty, each call made on
\* both: addPost(p) with addEntity(p), updatePost(id, u) with
\* updateEntity(id, u), removePost(id) with removeEntity(id)
InitPosts == InitHook

AddPost ==
    \E p \in StorePostArgs :
        /\ storePosts' = AddPostSet(storePosts, p)
        /\ Enqueue(Update("addEntity", NoId, p, <<>>, NoFields))
        /\ UNCHANGED <<state, nvars, xvars, bvars>>
        /\ UNCHANGED <<user, isAuthenticated, theme, sidebarOpen, trace>>

UpdatePost ==
    \E id \in StorePostIds, u \in StorePostUpdates :
        /\ storePosts' = UpdatePostSet(storePosts, id, u)
        /\ Enqueue(Update("updateEntity", id, NoEntity, <<>>, u))
        /\ UNCHANGED <<state, nvars, xvars, bvars>>
        /\ UNCHANGED <<user, isAuthenticated, theme, sidebarOpen, trace>>

RemovePost ==
    \E id \in StorePostIds :
        /\ storePosts' = RemovePostSet(storePosts, id)
        /\ Enqueue(Update("removeEntity", id, NoEntity, <<>>, NoFields))
        /\ UNCHANGED <<state, nvars, xvars, bvars>>
        /\ UNCHANGED <<user, isAuthenticated, theme, sidebarOpen, trace>>

NextPosts == AddPost \/ UpdatePost \/ RemovePost \/ Render

SpecPosts == InitPosts /\ [][NextPosts]_vars

----------------------------------------------------------------------------
(* authStore.ts and the UI store: set({...}) merges the given fields into the
   store's state at once *)

\* mutant: isAuthenticated computed as user !== null
AuthSetUser_NotNull(u) == [user |-> u, isAuthenticated |-> u # Null]

\* what setUser(user) hands to set (authStore.ts:14)
AuthSetUser(u) == [user |-> u, isAuthenticated |-> Truthy(u)]

\* what logout() hands to set (authStore.ts:15)
AuthLogout == [user |-> Null, isAuthenticated |-> FALSE]

\* mutant: toggleTheme switching to dark whatever the theme is
ToggleThemeSet_Dark(th) == "dark"

\* the theme toggleTheme hands to set (UI store, line 14)
ToggleThemeSet(th) == IF th = "light" THEN "dark" ELSE "light"

\* the sidebarOpen toggleSidebar hands to set (UI store, line 15)
ToggleSidebarSet(open) == ~open

\* arguments of setUser: user is typed any (authStore.ts:5-7)
AuthUsers ==
    {Null, Undefined, Num(0), Str(""), Str("john"), Obj(User(Num(1), "John"))}

\* arguments of setTheme (UI store, line 9)
Themes == {"light", "dark"}

\* the state of the two stores, and the trace extended by a call made in it
StoreState ==
    [user |-> user, isAuthenticated |-> isAuthenticated,
     theme |-> theme, sidebarOpen |-> sidebarOpen]

LastOf(s) == IF Len(s) > MaxTrace THEN SubSeq(s, Len(s) - MaxTrace + 1, Len(s)) ELSE s

Called(c, u, t) ==
    trace' = LastOf(Append(trace, [call |-> c, u |-> u, t |-> t, before |-> StoreState]))

InitStores == InitHook

\* setUser(user)
SetUser ==
    \E u \in AuthUsers :
        /\ user' = AuthSetUser(u).user
        /\ isAuthenticated' = AuthSetUser(u).isAuthenticated
        /\ Called("setUser", u, "")
        /\ UNCHANGED <<theme, sidebarOpen, storePosts, nvars, xvars, hvars, bvars>>

\* logout()
Logout ==
    /\ user' = AuthLogout.user
    /\ isAuthenticated' = AuthLogout.isAuthenticated
    /\ Called("logout", Undefined, "")
    /\ UNCHANGED <<theme, sidebarOpen, storePosts, nvars, xvars, hvars, bvars>>

\* toggleTheme()
ToggleTheme ==
    /\ theme' = ToggleThemeSet(theme)
    /\ Called("toggleTheme", Undefined, "")
    /\ UNCHANGED <<sidebarOpen, user, isAuthenticated, storePosts, nvars, xvars, hvars, bvars>>

\* toggleSidebar()
ToggleSidebar ==
    /\ sidebarOpen' = ToggleSidebarSet(sidebarOpen)
    /\ Called("toggleSidebar", Undefined, "")
    /\ UNCHANGED <<theme, user, isAuthenticated, storePosts, nvars, xvars, hvars, bvars>>

\* setTheme(theme)
SetTheme ==
    \E t \in Themes :
        /\ theme' = t
        /\ Called("setTheme", Undefined, t)
        /\ UNCHANGED <<sidebarOpen, user, isAuthenticated, storePosts, nvars, xvars, hvars, bvars>>

NextStores == SetUser \/ Logout \/ ToggleTheme \/ ToggleSidebar \/ SetTheme

SpecStores == InitStores /\ [][NextStores]_vars

----------------------------------------------------------------------------
(* Properties of normalize and denormalize, checked under SpecNormalize *)

SeqSet(s) == {s[i] : i \in 1..Len(s)}

\* the identifier value of the i-th record of arr, and the key it is filed under
IdAt(i) == Get(arr[i], key)
HasIdAt(i) == ~IsMissing(IdAt(i))
KeyAt(i) == PropertyKey(IdAt(i))

\* the records of arr that have an identifier, among the first n
WithId(n) == {i \in 1..n : HasIdAt(i)}

\* the last record among the first n that is filed under key k
LastWithKey(n, k) ==
    CHOOSE i \in WithId(n) :
        /\ KeyAt(i) = k
        /\ \A j \in WithId(n) : KeyAt(j) = k => j <= i

AllHaveId == \A i \in 1..Len(arr) : HasIdAt(i)
DistinctIdValues == \A i, j \in 1..Len(arr) : i # j => IdAt(i) # IdAt(j)
DistinctIdKeys == \A i, j \in 1..Len(arr) : i # j => KeyAt(i) # KeyAt(j)

RoundTripSame == SeqSet(out) = SeqSet(arr) /\ Len(out) = Len(arr)

\* C1 as stated: for every collection whose records all carry the identifier
\* field and whose identifier values are pairwise distinct,
\* denormalize(normalize(C)) has the same set of records and the same length.
C1_AsStated ==
    (npc = "roundtrip" /\ AllHaveId /\ DistinctIdValues) => RoundTripSame

\* C1 amended: the round trip returns the same set of records, and as many,
\* for every collection whose records all carry the identifier field and whose
\* identifier values are pairwise distinct after conversion to property keys
\* (a number and the string that spells it are one key).
C1_RoundTrip ==
    (npc = "roundtrip" /\ AllHaveId /\ DistinctIdKeys) => RoundTripSame

\* two records with distinct keys went through the round trip, and came
\* back in the other order
C1_Witness ==
    /\ npc = "roundtrip"
    /\ Len(arr) = 2
    /\ AllHaveId
    /\ DistinctIdKeys
    /\ out # arr

MissingExcluded ==
    \A k \in DOMAIN acc.get : ~IsMissing(Get(acc.get[k], key))

\* C3 as stated: records lacking the identifier field are excluded, and the
\* number of entries equals the number of records that had the field.
C3_AsStated ==
    npc = "returned" =>
        /\ MissingExcluded
        /\ Len(ObjKeys(acc)) = Cardinality(WithId(Len(arr)))

\* C3 amended: records lacking the identifier field are excluded, and the
\* number of entries equals the number of distinct property keys among the
\* identifiers of the records that had the field (so it equals the number of
\* those records when their keys are pairwise distinct).
C3_SizeIsDistinctKeys ==
    npc = "returned" =>
        /\ MissingExcluded
        /\ Len(ObjKeys(acc)) = Cardinality({KeyAt(i) : i \in WithId(Len(arr))})
        /\ (\A i, j \in WithId(Len(arr)) : i # j => KeyAt(i) # KeyAt(j))
              => Len(ObjKeys(acc)) = Cardinality(WithId(Len(arr)))

\* a collection with a record lacking the field and two records that had it
C3_Witness ==
    /\ npc = "returned"
    /\ Cardinality(WithId(Len(arr))) = 2
    /\ Len(arr) = 3
    /\ Len(ObjKeys(acc)) = 2

\* the records without an identifier among the first n, in input order
RECURSIVE MissingUpTo(_)
MissingUpTo(n) ==
    IF n = 0 THEN <<>>
    ELSE IF HasIdAt(n) THEN MissingUpTo(n - 1)
         ELSE Append(MissingUpTo(n - 1), arr[n])

\* C4: a record whose identifier is absent, undefined or null is skipped with
\* exactly one diagnostic and leaves the accumulated entries unchanged; a
\* record with an identifier emits none; every record with an identifier that
\* has been reached is in the map; and the pass is never refused a step.
C4_SkipAndContinue ==
    /\ (npc \in {"reduce", "returned"} /\ idx > 0) =>
          /\ ~HasIdAt(idx) => acc = prevAcc
          /\ warned = MissingUpTo(idx)
          /\ \A i \in WithId(idx) : ObjHasOwn(acc, KeyAt(i))
    /\ npc = "reduce" => ENABLED (ReduceStep \/ ReduceReturn)

\* a record without identifier was skipped between two records that have one
C4_Witness ==
    /\ npc = "returned"
    /\ Len(arr) = 3
    /\ HasIdAt(1) /\ ~HasIdAt(2) /\ HasIdAt(3)
    /\ KeyAt(1) # KeyAt(3)
    /\ Len(warned) = 1
    /\ Len(ObjKeys(acc)) = 2

\* how often v occurs in a sequence, and among the values of a map
CountInSeq(s, v) == Cardinality({i \in 1..Len(s) : s[i] = v})
CountInObj(o, v) == Cardinality({k \in DOMAIN o.get : o.get[k] = v})

\* C5: denormalize(M) holds exactly the values of M, one element per key, the
\* empty map gives the empty sequence, and the call is never refused.
C5_ValuesOnePerKey ==
    /\ npc \in {"roundtrip", "listed"} =>
          /\ Len(out) = Cardinality(DOMAIN acc.get)
          /\ \A v \in SeqSet(out) \cup {acc.get[k] : k \in DOMAIN acc.get} :
                CountInSeq(out, v) = CountInObj(acc, v)
          /\ acc = EmptyObj => out = <<>>
    /\ npc = "given" => ENABLED DenormalizeGiven
    /\ npc = "returned" => ENABLED DenormalizeResult

\* a map holding the same record under two keys was listed
C5_Witness ==
    /\ npc = "listed"
    /\ Len(out) = 2
    /\ out[1] = out[2]

----------------------------------------------------------------------------
(* Properties of extractEntities, checked under SpecExtract *)

\* the nested value of the i-th outer record, and whether it is a record
\* carrying the identifier field
NestedAt(i) == Get(items[i], entityKey)
HoldsRecordAt(i) == NestedAt(i).t = "object" /\ idKey \in DOMAIN NestedAt(i).f
NotRecordAt(i) == entityKey \notin DOMAIN items[i] \/ NestedAt(i).t # "object"
NestedIdAt(i) == NestedAt(i).f[idKey]
NestedKeyAt(i) == PropertyKey(NestedIdAt(i))

\* the outer records among the first n that hold such a record
Holders(n) == {i \in 1..n : HoldsRecordAt(i)}

\* the key the i-th outer record is filed under, and whether its entry is
\* still the one stored for it after n records
OuterKeyAt(i) == PropertyKey(Get(items[i], idKey))
OwnsEntry(i, n) == \A j \in (i + 1)..n : OuterKeyAt(j) # OuterKeyAt(i)

\* the last outer record whose nested record is filed under key k
LastHolder(k) ==
    CHOOSE i \in Holders(Len(items)) :
        /\ NestedKeyAt(i) = k
        /\ \A j \in Holders(Len(items)) : NestedKeyAt(j) = k => j <= i

\* the entry stored for the i-th outer record refers to its nested record
RefersToNested(i) ==
    LET e == normalizedItems.get[OuterKeyAt(i)]
    IN /\ entityKey \notin DOMAIN e
       /\ (entityKey \o "Id") \in DOMAIN e
       /\ e[entityKey \o "Id"] = NestedIdAt(i)

\* C6 as stated: for every outer record r whose field f holds a record n
\* carrying the identifier field, the entry of items for r has no field f and
\* has f+"Id" = n[k], and entities has an entry under n[k] holding n.
C6_AsStated ==
    xpc = "returned" =>
        \A i \in Holders(Len(items)) :
            /\ OwnsEntry(i, Len(items)) => RefersToNested(i)
            /\ ObjHasOwn(entities, NestedKeyAt(i))
            /\ entities.get[NestedKeyAt(i)] = NestedAt(i).f

\* C6 amended: for every outer record r whose field f holds a record n
\* carrying the identifier field, the entry stored for r has no field f and
\* has f+"Id" = n[k]; entities has an entry under n[k], which holds n once r
\* has been processed and, at return, the nested record of the last outer
\* record whose nested identifier has the same property key.
C6_ReferenceAndEntity ==
    /\ (xpc \in {"forEach", "returned"} /\ xi > 0 /\ HoldsRecordAt(xi)) =>
          /\ RefersToNested(xi)
          /\ ObjHasOwn(entities, NestedKeyAt(xi))
          /\ entities.get[NestedKeyAt(xi)] = NestedAt(xi).f
    /\ xpc = "returned" =>
          \A i \in Holders(Len(items)) :
              /\ OwnsEntry(i, Len(items)) => RefersToNested(i)
              /\ ObjHasOwn(entities, NestedKeyAt(i))
              /\ entities.get[NestedKeyAt(i)] = NestedAt(LastHolder(NestedKeyAt(i))).f

\* two posts with different identifiers whose authors share an identifier and
\* differ in a field were extracted
C6_Witness ==
    /\ xpc = "returned"
    /\ Len(items) = 2
    /\ HoldsRecordAt(1) /\ HoldsRecordAt(2)
    /\ OuterKeyAt(1) # OuterKeyAt(2)
    /\ NestedIdAt(1) = NestedIdAt(2)
    /\ NestedAt(1) # NestedAt(2)
    /\ RefersToNested(1) /\ RefersToNested(2)

\* C7: for every outer record r whose field f is absent or is not a record,
\* the entry stored for r has exactly the fields and values of r, and no
\* entry of entities is there on account of r: the callback for r leaves
\* entities as it was, and every key of entities at return is the identifier
\* of a nested record that carries the identifier field.
C7_CopiedThrough ==
    /\ (xpc \in {"forEach", "returned"} /\ xi > 0 /\ NotRecordAt(xi)) =>
          /\ normalizedItems.get[OuterKeyAt(xi)] = items[xi]
          /\ entities = prevEntities
    /\ xpc = "returned" =>
          /\ \A i \in 1..Len(items) :
                (NotRecordAt(i) /\ OwnsEntry(i, Len(items))) =>
                    /\ normalizedItems.get[OuterKeyAt(i)] = items[i]
                    /\ (entityKey \o "Id") \in DOMAIN normalizedItems.get[OuterKeyAt(i)]
                          => (entityKey \o "Id") \in DOMAIN items[i]
          /\ \A k \in DOMAIN entities.get :
                \E j \in Holders(Len(items)) : NestedKeyAt(j) = k

\* a post whose author is an array was copied through after a post whose
\* author was extracted
C7_Witness ==
    /\ xpc = "returned"
    /\ Len(items) = 2
    /\ HoldsRecordAt(1)
    /\ NestedAt(2) = EmptyArr
    /\ OuterKeyAt(1) # OuterKeyAt(2)
    /\ Len(ObjKeys(entities)) = 1
    /\ normalizedItems.get[OuterKeyAt(2)] = items[2]

\* the entry of entities for a nested identifier is single and is the nested
\* record of the last outer record filed under its key
OneEntryLastWins ==
    /\ \A i \in Holders(Len(items)) :
          /\ ObjHasOwn(entities, NestedKeyAt(i))
          /\ entities.get[NestedKeyAt(i)] = NestedAt(LastHolder(NestedKeyAt(i))).f
    /\ \A a, b \in 1..Len(ObjKeys(entities)) :
          a # b => ObjKeys(entities)[a] # ObjKeys(entities)[b]

\* C8 as stated: when several outer records carry nested records with the
\* same identifier, entities has one entry for it, the nested record of the
\* last such outer record, and the number of entries of entities equals the
\* number of distinct nested identifiers.
C8_AsStated ==
    xpc = "returned" =>
        /\ OneEntryLastWins
        /\ Len(ObjKeys(entities)) =
              Cardinality({NestedIdAt(i) : i \in Holders(Len(items))})

\* C8 amended: when several outer records carry nested records whose
\* identifiers have the same property key, entities has one entry for that
\* key, the nested record of the last such outer record, and the number of
\* entries of entities equals the number of distinct property keys of the
\* nested identifiers.
C8_NestedLastWins ==
    xpc = "returned" =>
        /\ OneEntryLastWins
        /\ Len(ObjKeys(entities)) =
              Cardinality({NestedKeyAt(i) : i \in Holders(Len(items))})

\* two outer records carried different nested records with one identifier
C8_Witness ==
    /\ xpc = "returned"
    /\ Len(items) = 2
    /\ HoldsRecordAt(1) /\ HoldsRecordAt(2)
    /\ NestedIdAt(1) = NestedIdAt(2)
    /\ NestedAt(1) # NestedAt(2)
    /\ Len(ObjKeys(entities)) = 1
    /\ entities.get[NestedKeyAt(1)] = NestedAt(2).f

----------------------------------------------------------------------------
(* Properties of the stateful wrapper, checked under SpecHook *)

\* the update the last render processed last, and the state it was applied to
LastApplied == applied[Len(applied)]
PrevOfLast == ProcessQueue(SubSeq(applied, 1, Len(applied) - 1), base)
LastIs(op) == applied # <<>> /\ LastApplied.op = op

\* the last two updates were addEntity(e) on the empty map and removeEntity(e.id)
AddedThenRemoved ==
    /\ Len(applied) >= 2
    /\ applied[Len(applied) - 1].op = "addEntity"
    /\ LastApplied.op = "removeEntity"
    /\ LastApplied.id = applied[Len(applied) - 1].entity.id
    /\ ProcessQueue(SubSeq(applied, 1, Len(applied) - 2), base) = EmptyObj

\* C9: after removeEntity(id) is applied, hasEntity(id) is false and
\* getEntity(id) is undefined, whatever came before; addEntity(e) on the
\* empty map followed by removeEntity(e.id) leaves count = 0.
C9_AsStated ==
    /\ LastIs("removeEntity") =>
          /\ ~hasEntity(LastApplied.id)
          /\ getEntity(LastApplied.id) = Undefined
    /\ AddedThenRemoved => count = 0

\* C9 for the identifiers that name no member of Object.prototype
C9_NotInherited ==
    /\ (LastIs("removeEntity") /\ PropertyKey(LastApplied.id) \notin ObjectProtoKeys) =>
          /\ ~hasEntity(LastApplied.id)
          /\ getEntity(LastApplied.id) = Undefined
    /\ AddedThenRemoved => count = 0

\* an entity was added to the empty map and removed again
C9_Witness == AddedThenRemoved /\ count = 0 /\ ~hasEntity(LastApplied.id)

\* the last update was updateEntity with an id that is no key of the map
UpdatedAbsent ==
    /\ LastIs("updateEntity")
    /\ ~ObjHasOwn(PrevOfLast, PropertyKey(LastApplied.id))

\* C10: updateEntity(id, partial) with an id that is not a key of the current
\* map leaves the map structurally equal to what it was, and count unchanged.
C10_AsStated ==
    UpdatedAbsent =>
        /\ state = PrevOfLast
        /\ count = Len(ObjKeys(PrevOfLast))

\* C10 for the identifiers that name no member of Object.prototype
C10_NotInherited ==
    (UpdatedAbsent /\ PropertyKey(LastApplied.id) \notin ObjectProtoKeys) =>
        /\ state = PrevOfLast
        /\ count = Len(ObjKeys(PrevOfLast))

\* updateEntity was applied to a non-empty map that lacks the id
C10_Witness ==
    /\ UpdatedAbsent
    /\ PropertyKey(LastApplied.id) \notin ObjectProtoKeys
    /\ PrevOfLast # EmptyObj
    /\ state = PrevOfLast

\* the last update was updateEntity with an id that is a key of the map
UpdatedPresent ==
    /\ LastIs("updateEntity")
    /\ ObjHasOwn(PrevOfLast, PropertyKey(LastApplied.id))

\* the fields of record r with the fields of partial p overriding them
Merged(r, p) ==
    [g \in DOMAIN r \cup DOMAIN p |-> IF g \in DOMAIN p THEN p[g] ELSE r[g]]

\* C11: updateEntity(id, partial) with an id present in the map replaces the
\* record under id by the old record with every field of partial overriding
\* it (fields the partial does not name keep their values), and leaves every
\* other entry and the set of keys (and their order) unchanged.
C11_MergedInPlace ==
    UpdatedPresent =>
        LET k == PropertyKey(LastApplied.id)
        IN /\ state.get[k] = Merged(PrevOfLast.get[k], LastApplied.updates)
           /\ \A x \in DOMAIN PrevOfLast.get \ {k} : state.get[x] = PrevOfLast.get[x]
           /\ DOMAIN state.get = DOMAIN PrevOfLast.get
           /\ ObjKeys(state) = ObjKeys(PrevOfLast)

\* a record of a map with two entries was updated: its name changed, its id
\* and the other entry stayed
C11_Witness ==
    /\ UpdatedPresent
    /\ Len(ObjKeys(PrevOfLast)) = 2
    /\ "name" \in DOMAIN LastApplied.updates
    /\ "name" \in DOMAIN PrevOfLast.get[PropertyKey(LastApplied.id)]
    /\ state.get[PropertyKey(LastApplied.id)].name
          # PrevOfLast.get[PropertyKey(LastApplied.id)].name
    /\ state.get[PropertyKey(LastApplied.id)].id
          = PrevOfLast.get[PropertyKey(LastApplied.id)].id

\* the last two updates were addEntity(e) and updateEntity(e.id, p)
AddedThenUpdated ==
    /\ Len(applied) >= 2
    /\ applied[Len(applied) - 1].op = "addEntity"
    /\ LastApplied.op = "updateEntity"
    /\ LastApplied.id = applied[Len(applied) - 1].entity.id

\* C13: after addEntity(e) followed by updateEntity(e.id, p), getEntity(e.id)
\* returns the record e with the fields of p merged over it.
C13_AddThenUpdate ==
    AddedThenUpdated =>
        getEntity(LastApplied.id) =
            Obj(Merged(applied[Len(applied) - 1].entity, LastApplied.updates))

\* an entity was added and then renamed, and the read shows the new name
\* next to the id it was added with
C13_Witness ==
    /\ AddedThenUpdated
    /\ "name" \in DOMAIN LastApplied.updates
    /\ LastApplied.updates.name # applied[Len(applied) - 1].entity.name
    /\ GetValue(getEntity(LastApplied.id), "name") = LastApplied.updates.name
    /\ GetValue(getEntity(LastApplied.id), "id") = LastApplied.id

\* the exposed sizes agree
SizesAgree ==
    /\ count = Cardinality(DOMAIN state.get)
    /\ count = Len(getAllEntities)
    /\ count = Len(entityIds)

\* C15: in every reachable state of the wrapper count equals the number of
\* keys of the map, the length of getAllEntities and the length of entityIds,
\* and hasEntity(id) is true exactly when the stringified id is one of
\* entityIds.
C15_AsStated ==
    /\ SizesAgree
    /\ \A id \in HookIds : hasEntity(id) <=> PropertyKey(id) \in SeqSet(entityIds)

\* C15 for the identifiers that name no member of Object.prototype
C15_NotInherited ==
    /\ SizesAgree
    /\ \A id \in HookIds :
          PropertyKey(id) \notin ObjectProtoKeys
              => (hasEntity(id) <=> PropertyKey(id) \in SeqSet(entityIds))

\* the last two updates were clear() and addEntity(e)
ClearedThenAdded ==
    /\ Len(applied) >= 2
    /\ applied[Len(applied) - 1].op = "clear"
    /\ LastApplied.op = "addEntity"

\* after clear() the sizes are zero, and after clear() and addEntity(e) the
\* only entry is e
ClearedSizes ==
    /\ LastIs("clear") => (state = EmptyObj /\ count = 0 /\ getAllEntities = <<>>)
    /\ ClearedThenAdded =>
          /\ entityIds = <<PropertyKey(LastApplied.entity.id)>>
          /\ getAllEntities = <<LastApplied.entity>>

\* C16: after clear() is applied the map is empty whatever the earlier state
\* was: count is 0, getAllEntities is empty and hasEntity(id) is false for
\* every identifier; clear() followed by addEntity(e) yields a map whose only
\* entry is e.
C16_AsStated ==
    /\ ClearedSizes
    /\ LastIs("clear") => \A id \in HookIds : ~hasEntity(id)

\* C16 for the identifiers that name no member of Object.prototype
C16_NotInherited ==
    /\ ClearedSizes
    /\ LastIs("clear") =>
          \A id \in HookIds : PropertyKey(id) \notin ObjectProtoKeys => ~hasEntity(id)

\* addEntity(e1), ..., addEntity(en) applied in that order
RECURSIVE AddEach(_, _)
AddEach(prev, es) ==
    IF es = <<>> THEN prev ELSE AddEach(AddEntityUpdater(prev, Head(es)), Tail(es))

\* the key the i-th entity of a batch is stored under, and the last entity of
\* the batch stored under key k
BatchKey(es, i) == PropertyKey(Get(es[i], "id"))
BatchKeys(es) == {BatchKey(es, i) : i \in 1..Len(es)}
LastInBatch(es, k) ==
    es[CHOOSE i \in 1..Len(es) :
           /\ BatchKey(es, i) = k
           /\ \A j \in 1..Len(es) : BatchKey(es, j) = k => j <= i]

\* C17: addEntities([e1..en]) produces the same map as addEntity(e1), ...,
\* addEntity(en) applied in that order: under the key of every ei the map
\* holds the last entity of the batch with that key, whole (no field of an
\* earlier record under that key survives), entries under other keys are
\* unchanged, and addEntities([]) leaves the map unchanged.
C17_BatchIsSequence ==
    LastIs("addEntities") =>
        LET es == LastApplied.entities
        IN /\ state = AddEach(PrevOfLast, es)
           /\ DOMAIN state.get = DOMAIN PrevOfLast.get \cup BatchKeys(es)
           /\ \A k \in BatchKeys(es) : state.get[k] = LastInBatch(es, k)
           /\ \A k \in DOMAIN PrevOfLast.get \ BatchKeys(es) :
                 state.get[k] = PrevOfLast.get[k]
           /\ es = <<>> => state = PrevOfLast

\* a batch of three entities, two of them under one key, was added to a map
\* that held another record under that key: the last of the two is there
C17_Witness ==
    /\ LastIs("addEntities")
    /\ Len(LastApplied.entities) = 3
    /\ Cardinality(BatchKeys(LastApplied.entities)) = 2
    /\ ObjHasOwn(PrevOfLast, "1")
    /\ PrevOfLast.get["1"] # LastApplied.entities[3]
    /\ state.get["1"] = LastApplied.entities[3]
    /\ Len(ObjKeys(state)) = 2

\* an entity without a name replaced a record that had one
C17_WhollyReplaced ==
    /\ LastIs("addEntities")
    /\ LastApplied.entities = <<[id |-> Num(1)]>>
    /\ ObjHasOwn(PrevOfLast, "1")
    /\ "name" \in DOMAIN PrevOfLast.get["1"]
    /\ "name" \notin DOMAIN state.get["1"]

\* the record under key k carries an id that spells k
KeyedByOwnId(o, k) == "id" \in DOMAIN o.get[k] /\ PropertyKey(o.get[k].id) = k

\* C18: starting from the empty map, after any sequence of addEntity,
\* addEntities, removeEntity, updateEntity and clear, every record of the
\* state is stored under the key equal to the stringified value of its own id
\* field.
C18_AsStated == \A k \in DOMAIN state.get : KeyedByOwnId(state, k)

\* C18 for the updates other than updateEntity: they keep a map whose records
\* are keyed by their own id that way
C18_KeptByOthers ==
    (/\ applied # <<>>
     /\ LastApplied.op # "updateEntity"
     /\ \A k \in DOMAIN PrevOfLast.get : KeyedByOwnId(PrevOfLast, k))
        => \A k \in DOMAIN state.get : KeyedByOwnId(state, k)

\* updateEntity(1, {id: 2}) was applied to a map holding a record under "1"
C18_IdRewritten ==
    /\ LastIs("updateEntity")
    /\ LastApplied.id = Num(1)
    /\ "id" \in DOMAIN LastApplied.updates
    /\ ObjHasOwn(state, "1")
    /\ state.get["1"].id = Num(2)

\* the map after the first n updates of the last render, each applied to the
\* map the one before it produced
RECURSIVE AfterFirst(_)
AfterFirst(n) ==
    IF n = 0 THEN base ELSE ApplyUpdate(applied[n], AfterFirst(n - 1))

\* the last render processed two addEntity calls with different keys
TwoAdds ==
    /\ Len(applied) = 2
    /\ applied[1].op = "addEntity"
    /\ applied[2].op = "addEntity"
    /\ PropertyKey(applied[1].entity.id) # PropertyKey(applied[2].entity.id)

\* C24: no mutation is lost when several are issued before the state is
\* re-read: each queued addEntity, addEntities, removeEntity, updateEntity and
\* clear is applied to the map produced by the mutation queued before it, so
\* the committed map equals applying all of them sequentially in issue order;
\* two addEntity calls with different ids issued from the same snapshot both
\* end up in the map.
C24_NoLostUpdate ==
    /\ applied # <<>> => state = AfterFirst(Len(applied))
    /\ TwoAdds =>
          /\ state.get[PropertyKey(applied[1].entity.id)] = applied[1].entity
          /\ state.get[PropertyKey(applied[2].entity.id)] = applied[2].entity
          /\ DOMAIN state.get = DOMAIN base.get
                \cup {PropertyKey(applied[1].entity.id), PropertyKey(applied[2].entity.id)}

\* two entities with different ids were added to the empty map from one
\* snapshot, and both are there
C24_Witness ==
    /\ TwoAdds
    /\ base = EmptyObj
    /\ count = 2
    /\ getEntity(applied[1].entity.id) = Obj(applied[1].entity)
    /\ getEntity(applied[2].entity.id) = Obj(applied[2].entity)

----------------------------------------------------------------------------
(* Properties of BlogApp, checked under SpecBlog *)

\* the posts map as BlogApp loaded it
LoadedPosts == AddEntitiesUpdater(EmptyObj, ObjValues(normalizedItems))

\* the last render committed authors.updateEntity(a, {name: n}) last
Renamed == bpc = "loaded" /\ LastIs("updateEntity")

\* authors.getEntity(p.authorId).name is n
ResolvesTo(p, n) == GetValue(getEntity(Get(p, "authorId")), "name") = n

----------------------------------------------------------------------------
(* Properties of the three functions of normalize.ts, checked under SpecUtils *)

----------------------------------------------------------------------------
(* Further properties of extractEntities, checked under SpecExtract *)

\* the outer records that carry the identifier field, and the last outer
\* record filed under key k
HasOuterId(i) == idKey \in DOMAIN items[i]
LastOuter(k) ==
    CHOOSE i \in 1..Len(items) :
        /\ OuterKeyAt(i) = k
        /\ \A j \in 1..Len(items) : OuterKeyAt(j) = k => j <= i

\* every key of items spells the identifier of an outer record, and its entry
\* carries the identifier of the last outer record with that key
KeysSpellOuterIds ==
    \A k \in DOMAIN normalizedItems.get :
        /\ \E i \in 1..Len(items) : OuterKeyAt(i) = k
        /\ Get(normalizedItems.get[k], idKey) = Get(items[LastOuter(k)], idKey)

\* C19 as stated: every key of items is the stringified identifier r[k] of
\* the outer record it was derived from, items has one entry per distinct
\* outer identifier value (the last outer record with it wins), and an outer
\* record that lacks the identifier field k produces no entry.
C19_AsStated ==
    xpc = "returned" =>
        /\ KeysSpellOuterIds
        /\ Len(ObjKeys(normalizedItems)) =
              Cardinality({Get(items[i], idKey) : i \in {j \in 1..Len(items) : HasOuterId(j)}})
        /\ \A i \in 1..Len(items) :
              ~HasOuterId(i) => ~ObjHasOwn(normalizedItems, OuterKeyAt(i))

\* what the code does: one entry per distinct property key of r[k], the
\* outer records that lack k filed together under "undefined"
C19_OnePerKey ==
    xpc = "returned" =>
        /\ KeysSpellOuterIds
        /\ Len(ObjKeys(normalizedItems)) =
              Cardinality({OuterKeyAt(i) : i \in 1..Len(items)})
        /\ \A i \in 1..Len(items) :
              ~HasOuterId(i) => ObjHasOwn(normalizedItems, "undefined")

\* an outer record without identifier was given an entry
C19_FiledUnderUndefined ==
    /\ xpc = "returned"
    /\ Len(items) = 1
    /\ ~HasOuterId(1)
    /\ ObjKeys(normalizedItems) = <<"undefined">>

\* the entry stored for the i-th outer record
EntryOf(i) == normalizedItems.get[OuterKeyAt(i)]

\* the outer records whose nested record was extracted and whose entry is
\* still the one stored for them
Extracted == {i \in Holders(xi) : OwnsEntry(i, xi)}

\* C20 as stated: for every outer record r from which a nested record is
\* extracted, every field of r other than f keeps its original value in the
\* entry of items, and the entry's fields are exactly r's fields minus f plus
\* the single new field f+"Id".
C20_AsStated ==
    xpc = "returned" =>
        \A i \in Extracted :
            /\ \A g \in DOMAIN items[i] \ {entityKey} :
                  g \in DOMAIN EntryOf(i) /\ EntryOf(i)[g] = items[i][g]
            /\ RefField(entityKey) \notin DOMAIN items[i]
            /\ DOMAIN EntryOf(i) =
                  (DOMAIN items[i] \ {entityKey}) \cup {RefField(entityKey)}

\* what the code does: every field of r other than f and f+"Id" keeps its
\* original value in the entry of items; the entry's fields are r's fields
\* minus f plus the field f+"Id", which holds the nested record's identifier
\* whether or not r had a field of that name.
C20_OtherFieldsKept ==
    xpc \in {"forEach", "returned"} =>
        \A i \in Extracted :
            /\ \A g \in DOMAIN items[i] \ {entityKey, RefField(entityKey)} :
                  g \in DOMAIN EntryOf(i) /\ EntryOf(i)[g] = items[i][g]
            /\ DOMAIN EntryOf(i) =
                  (DOMAIN items[i] \ {entityKey}) \cup {RefField(entityKey)}
            /\ EntryOf(i)[RefField(entityKey)] = NestedIdAt(i)

\* an outer record that had a field authorId of its own was extracted: its
\* title and id are kept, its authorId now names the nested record
C20_RefOverwritten ==
    /\ xpc = "returned"
    /\ Len(items) = 2
    /\ 2 \in Extracted
    /\ RefField(entityKey) \in DOMAIN items[2]
    /\ items[2][RefField(entityKey)] # NestedIdAt(2)
    /\ EntryOf(2)[RefField(entityKey)] = NestedIdAt(2)
    /\ EntryOf(2).title = items[2].title
    /\ EntryOf(2).id = items[2].id

\* the value of the reference field the call added to the entry stored for
\* the i-th outer record, and the entry of entities it names
RefOf(i) == EntryOf(i)[RefField(entityKey)]
Referred(i) == entities.get[PropertyKey(RefOf(i))]

\* C23 as stated: for every entry of items to which the call added the field
\* f+"Id", the value of that field is a key of entities, and the record
\* stored there carries that same identifier value in field k.
C23_AsStated ==
    xpc = "returned" =>
        \A i \in Extracted :
            /\ ObjHasOwn(entities, PropertyKey(RefOf(i)))
            /\ Get(Referred(i), idKey) = RefOf(i)

\* C23 amended: for every entry of items to which the call added the field
\* f+"Id", the value of that field (as a property key) is a key of entities,
\* and the record stored there carries in field k an identifier with that
\* same property key: the same value, unless a later outer record carried a
\* nested record whose identifier is the other form of it.
C23_ReferentialIntegrity ==
    xpc \in {"forEach", "returned"} =>
        \A i \in Extracted :
            /\ ObjHasOwn(entities, PropertyKey(RefOf(i)))
            /\ idKey \in DOMAIN Referred(i)
            /\ PropertyKey(Referred(i)[idKey]) = PropertyKey(RefOf(i))
            /\ (\A j \in Holders(xi) :
                   (j > i /\ NestedKeyAt(j) = NestedKeyAt(i)) => NestedIdAt(j) = NestedIdAt(i))
                  => Referred(i)[idKey] = RefOf(i)

\* two posts whose authors have the identifiers 10 and "10": the first
\* post's reference is 10 and names the entry that holds the second author
C23_Witness ==
    /\ xpc = "returned"
    /\ Len(items) = 2
    /\ Extracted = {1, 2}
    /\ RefOf(1) = Num(10)
    /\ RefOf(2) = Str("10")
    /\ Referred(1) = NestedAt(2).f
    /\ Referred(1)[idKey] = Str("10")

----------------------------------------------------------------------------
(* Properties of the whole library, checked under SpecLibrary *)

\* a is an integer and b the string that spells it, or the other way round
Spells(a, b) == a.t = "number" /\ b = Str(ToString(a.n))
TwoForms(a, b) == Spells(a, b) \/ Spells(b, a)

\* key k occurs once among the own keys of o
OneEntry(o, k) == Cardinality({p \in 1..Len(o.keys) : o.keys[p] = k}) = 1

\* normalize: two records whose identifiers are the two forms share one
\* entry, which holds the later one
NormalizeTwoForms ==
    npc = "returned" =>
        \A i, j \in WithId(Len(arr)) :
            TwoForms(IdAt(i), IdAt(j)) =>
                /\ KeyAt(i) = KeyAt(j)
                /\ OneEntry(acc, KeyAt(i))
                /\ acc.get[KeyAt(i)] = arr[LastWithKey(Len(arr), KeyAt(i))]

\* extractEntities: the same for the outer records in items and for the
\* nested records in entities
ExtractTwoForms ==
    xpc = "returned" =>
        /\ \A i, j \in 1..Len(items) :
              TwoForms(Get(items[i], idKey), Get(items[j], idKey)) =>
                  /\ OuterKeyAt(i) = OuterKeyAt(j)
                  /\ OneEntry(normalizedItems, OuterKeyAt(i))
                  /\ Get(normalizedItems.get[OuterKeyAt(i)], idKey)
                        = Get(items[LastOuter(OuterKeyAt(i))], idKey)
        /\ \A i, j \in Holders(Len(items)) :
              TwoForms(NestedIdAt(i), NestedIdAt(j)) =>
                  /\ NestedKeyAt(i) = NestedKeyAt(j)
                  /\ OneEntry(entities, NestedKeyAt(i))
                  /\ entities.get[NestedKeyAt(i)] = NestedAt(LastHolder(NestedKeyAt(i))).f

\* the identifiers the wrapper is called with in both forms, as pairs of the
\* integer and the string, and the partials updateEntity is called with
FormPairs == {<<a, b>> \in HookIds \X HookIds : Spells(a, b)}
Partials == {u[2] : u \in HookUpdates}

\* the wrapper: an entity whose id is one form replaces the record stored
\* under the other form, and every call made with one form reads, removes or
\* updates what the same call made with the other form does
HookTwoForms ==
    (npc = "idle" /\ xpc = "idle") =>
        \A fp \in FormPairs :
            LET k == PropertyKey(fp[1])
                removed == RemoveEntityUpdater(state, fp[1])
            IN /\ PropertyKey(fp[2]) = k
               /\ \A e \in HookEntities :
                     e.id \in {fp[1], fp[2]} =>
                         LET after == AddEntityUpdater(state, e)
                         IN /\ OneEntry(after, k)
                            /\ after.get[k] = e
                            /\ Len(ObjKeys(after)) =
                                  Len(ObjKeys(state)) + (IF ObjHasOwn(state, k) THEN 0 ELSE 1)
               /\ getEntity(fp[1]) = getEntity(fp[2])
               /\ hasEntity(fp[1]) = hasEntity(fp[2])
               /\ removed = RemoveEntityUpdater(state, fp[2])
               /\ ~ObjHasOwn(removed, k)
               /\ \A p \in Partials :
                     LET updated == UpdateEntityUpdater(state, fp[1], p)
                     IN /\ updated = UpdateEntityUpdater(state, fp[2], p)
                        /\ ObjHasOwn(state, k) => updated.get[k] = Merged(state.get[k], p)
               /\ ObjHasOwn(state, k) =>
                     /\ hasEntity(fp[1])
                     /\ getEntity(fp[1]) = Obj(state.get[k])

\* C21: identifiers are compared in stringified form everywhere: in
\* normalize, extractEntities and the stateful wrapper an integer identifier
\* n and the string that spells n address the same entry, so two records with
\* identifiers n and String(n) occupy one entry (the later one wins) and
\* hasEntity / getEntity / removeEntity / updateEntity called with either
\* form act on that entry.
C21_StringifiedEverywhere == NormalizeTwoForms /\ ExtractTwoForms /\ HookTwoForms

\* the wrapper held a record with id 1 and was given an entity with id "1":
\* one entry, the later entity, read under either form
C21_Witness ==
    /\ LastIs("addEntity")
    /\ LastApplied.entity.id = Str("1")
    /\ ObjHasOwn(PrevOfLast, "1")
    /\ PrevOfLast.get["1"].id = Num(1)
    /\ count = Len(ObjKeys(PrevOfLast))
    /\ getEntity(Num(1)) = Obj(LastApplied.entity)
    /\ getEntity(Str("1")) = Obj(LastApplied.entity)

----------------------------------------------------------------------------
(* Termination and the single pass, checked under SpecUtilsFair *)

\* extractEntities' two maps after the callback has run for the records of s,
\* in order, once each
RECURSIVE ItemsFrom(_, _, _, _)
ItemsFrom(nitems, s, f, k) ==
    IF s = <<>> THEN nitems
    ELSE ItemsFrom(ExtractItem(nitems, Head(s), f, k), Tail(s), f, k)

RECURSIVE EntitiesFrom(_, _, _, _)
EntitiesFrom(ents, s, f, k) ==
    IF s = <<>> THEN ents
    ELSE EntitiesFrom(ExtractEntity(ents, Head(s), f, k), Tail(s), f, k)

\* after n steps the results are those of the first n records taken in input
\* order, once each, and a call that has returned has taken them all
OnePassNormalize ==
    /\ npc \in {"reduce", "returned", "roundtrip"} =>
          /\ idx \in 0..Len(arr)
          /\ acc = NormalizeFrom(EmptyObj, SubSeq(arr, 1, idx), key)
          /\ warned = MissingUpTo(idx)
    /\ npc \in {"returned", "roundtrip"} => idx = Len(arr)

OnePassExtract ==
    /\ xpc \in {"forEach", "returned"} =>
          /\ xi \in 0..Len(items)
          /\ normalizedItems = ItemsFrom(EmptyObj, SubSeq(items, 1, xi), entityKey, idKey)
          /\ entities = EntitiesFrom(EmptyObj, SubSeq(items, 1, xi), entityKey, idKey)
    /\ xpc = "returned" => xi = Len(items)

\* every entry of entities is the nested record of an outer record, whole: a
\* record inside it is still inside it and has no entry of its own
NoDescent ==
    xpc = "returned" =>
        \A k \in DOMAIN entities.get :
            /\ \E j \in Holders(Len(items)) : NestedKeyAt(j) = k
            /\ entities.get[k] = NestedAt(LastHolder(k)).f

\* C22: normalize and extractEntities each terminate on every finite
\* collection, after examining each input record exactly once, in input
\* order (every step moves to the next record); extractEntities never
\* descends into a nested record, so a record nested inside the extracted
\* record stays embedded in it and produces no entry of its own.
C22_OnePassTerminates ==
    /\ [](OnePassNormalize /\ OnePassExtract /\ NoDescent)
    /\ [][(idx' # idx => idx' = idx + 1) /\ (xi' # xi => xi' = xi + 1)]_vars
    /\ (npc = "reduce") ~> (npc = "returned")
    /\ (xpc = "forEach") ~> (xpc = "returned")

\* extractEntities returned after two records, the second with an author
\* that holds a company record: the company is still inside the author's
\* entry and entities has no entry under the company's identifier
C22_Witness ==
    /\ xpc = "returned"
    /\ idKey = "id"
    /\ xi = 2
    /\ Len(items) = 2
    /\ HoldsRecordAt(2)
    /\ "company" \in DOMAIN NestedAt(2).f
    /\ entities.get[NestedKeyAt(2)].company = NestedAt(2).f.company
    /\ ~ObjHasOwn(entities, PropertyKey(NestedAt(2).f.company.f.id))

----------------------------------------------------------------------------
(* The reads of the wrapper across renders, checked under SpecHookFair *)

\* what the five reads return, and what they return on one map o
CurrentReads ==
    [ getEntity |-> [id \in HookIds |-> getEntity(id)],
      hasEntity |-> [id \in HookIds |-> hasEntity(id)],
      getAllEntities |-> getAllEntities,
      entityIds |-> entityIds,
      count |-> count ]

ReadsOf(o) ==
    [ getEntity |-> [id \in HookIds |-> ObjGet(o, PropertyKey(id))],
      hasEntity |-> [id \in HookIds |-> ObjIn(PropertyKey(id), o)],
      getAllEntities |-> ObjValues(o),
      entityIds |-> ObjKeys(o),
      count |-> Len(ObjKeys(o)) ]

\* C25: the reads always reflect one committed snapshot of the map: while
\* mutations are issued and not yet committed all five reads are those of the
\* map of the last render (issuing one changes none of them), once committed
\* all five are those of the map the mutations produce, and every issued
\* mutation is eventually committed.
C25_OneSnapshot ==
    /\ [](/\ CurrentReads = ReadsOf(state)
          /\ queue # <<>> => CurrentReads = ReadsOf(base)
          /\ applied # <<>> => CurrentReads = ReadsOf(AfterFirst(Len(applied))))
    /\ [][/\ Len(queue') > Len(queue) => CurrentReads' = CurrentReads
          /\ Len(queue') < Len(queue) => (queue' = <<>> /\ applied' = queue)]_vars
    /\ (queue # <<>>) ~> (queue = <<>>)

\* an entity was added to a map holding another: before the render no read
\* showed it, after the render all of them do
C25_Witness ==
    /\ applied # <<>>
    /\ LastApplied.op = "addEntity"
    /\ Len(applied) = 1
    /\ Len(ObjKeys(base)) = 1
    /\ ~ObjHasOwn(base, PropertyKey(LastApplied.entity.id))
    /\ count = 2
    /\ Len(getAllEntities) = 2
    /\ Len(entityIds) = 2
    /\ hasEntity(LastApplied.entity.id)
    /\ getEntity(LastApplied.entity.id) = Obj(LastApplied.entity)

----------------------------------------------------------------------------
(* removeEntity and the other entries, checked under SpecHook *)

\* C26: removeEntity(id) affects only the entry under id: every other entry
\* keeps its key, its place and its record; count drops by exactly one when an
\* entry was stored under id, and then none is stored under it; when none was,
\* the contents and count are what they were.
C26_OnlyThatEntry ==
    LastIs("removeEntity") =>
        LET k == PropertyKey(LastApplied.id)
            others == SelectSeq(ObjKeys(PrevOfLast), LAMBDA x : x # k)
        IN /\ entityIds = others
           /\ \A i \in 1..Len(others) :
                  getEntity(Str(others[i])) = Obj(PrevOfLast.get[others[i]])
           /\ ObjHasOwn(PrevOfLast, k) =>
                  /\ count = Len(ObjKeys(PrevOfLast)) - 1
                  /\ ~ObjHasOwn(state, k)
           /\ ~ObjHasOwn(PrevOfLast, k) =>
                  /\ state = PrevOfLast
                  /\ count = Len(ObjKeys(PrevOfLast))

\* an entry was removed from a map that held another one, which is still there
C26_Witness ==
    /\ LastIs("removeEntity")
    /\ ObjHasOwn(PrevOfLast, PropertyKey(LastApplied.id))
    /\ Len(ObjKeys(PrevOfLast)) = 2
    /\ count = 1
    /\ ~ObjHasOwn(state, PropertyKey(LastApplied.id))

----------------------------------------------------------------------------
(* The posts store beside the wrapper, checked under SpecPosts *)

\* C27: after any sequence of calls from the empty map, made on the posts
\* store and on the wrapper alike, the posts map is the map the wrapper's
\* updates produce; once the wrapper has rendered them the two maps are
\* equal, getPost(id) is getEntity(id) for every id and getAllPosts is
\* getAllEntities; an updatePost on an id the map does not hold leaves the
\* posts map as it was.
C27_StoreAsWrapper ==
    /\ storePosts = ProcessQueue(queue, state)
    /\ queue = <<>> =>
           /\ storePosts = state
           /\ \A id \in StorePostIds : getPost(id) = getEntity(id)
           /\ getAllPosts = getAllEntities
    /\ UpdatedAbsent => storePosts = PrevOfLast

\* a post was added, then another was added and an absent id updated: store
\* and wrapper hold the same two posts
C27_Witness ==
    /\ queue = <<>>
    /\ UpdatedAbsent
    /\ Len(applied) = 2
    /\ applied[1].op = "addEntity"
    /\ count = 2
    /\ Len(getAllPosts) = 2
    /\ getPost(Num(1)) = getEntity(Num(1))
    /\ getPost(Num(1)) # Undefined

----------------------------------------------------------------------------
(* The auth store and the UI store, checked under SpecStores *)

\* the last call made on the stores, the one before it, and whether the last
\* (the last two) were calls of c
LastCall == trace[Len(trace)]
CallBefore == trace[Len(trace) - 1]
LastCalled(c) == trace # <<>> /\ LastCall.call = c
TwiceCalled(c) == Len(trace) >= 2 /\ LastCall.call = c /\ CallBefore.call = c

\* C28, as stated: in every state reachable by setUser(u) and logout(),
\* isAuthenticated is true exactly when user is not null.
C28_AsStated == isAuthenticated <=> user # Null

\* C28, amended: isAuthenticated is true exactly when user is truthy, so it is
\* false for a null user and also for the undefined, 0 or '' that setUser
\* stored as user; logout() yields user = null and isAuthenticated = false
\* from any state, and a second logout() leaves what the first one left.
C28_TruthyUser ==
    /\ isAuthenticated <=> Truthy(user)
    /\ user \in {Obj(User(Num(1), "John")), Str("john")} => isAuthenticated
    /\ user \in {Null, Undefined, Num(0), Str("")} => ~isAuthenticated
    /\ LastCalled("logout") => (user = Null /\ isAuthenticated = FALSE)
    /\ TwiceCalled("logout") =>
           /\ user = LastCall.before.user
           /\ isAuthenticated = LastCall.before.isAuthenticated

\* logout() was called twice on a store that held an authenticated user
C28_Witness ==
    /\ TwiceCalled("logout")
    /\ CallBefore.before.isAuthenticated
    /\ CallBefore.before.user = Obj(User(Num(1), "John"))
    /\ user = Null
    /\ ~isAuthenticated

\* C29: theme is always "light" or "dark"; toggleTheme flips it and leaves
\* sidebarOpen, toggleSidebar negates sidebarOpen and leaves theme,
\* setTheme(t) sets theme to t and leaves sidebarOpen; two consecutive
\* toggleTheme calls, or two toggleSidebar calls, restore the state they
\* started from.
C29_UIStore ==
    /\ theme \in {"light", "dark"}
    /\ LastCalled("toggleTheme") =>
           /\ theme # LastCall.before.theme
           /\ sidebarOpen = LastCall.before.sidebarOpen
    /\ LastCalled("toggleSidebar") =>
           /\ sidebarOpen = ~LastCall.before.sidebarOpen
           /\ theme = LastCall.before.theme
    /\ LastCalled("setTheme") =>
           /\ theme = LastCall.t
           /\ sidebarOpen = LastCall.before.sidebarOpen
    /\ TwiceCalled("toggleTheme") => StoreState = CallBefore.before
    /\ TwiceCalled("toggleSidebar") => StoreState = CallBefore.before

\* toggleTheme was called twice on the dark theme with the sidebar closed
C29_Witness ==
    /\ TwiceCalled("toggleTheme")
    /\ CallBefore.before.theme = "dark"
    /\ CallBefore.before.sidebarOpen = FALSE
    /\ LastCall.before.theme = "light"
    /\ theme = "dark"
    /\ sidebarOpen = FALSE

====
